---- MODULE Spec2Model ----
(***************************************************************************)
(* The Firewalla integration's resilient poller: async_update_data, the    *)
(* update method of the DataUpdateCoordinator built in async_setup_entry,  *)
(* the layered feature flags it reads from the config entry, and the       *)
(* per-entity lookups that read the snapshot it returns.                   *)
(*                                                                         *)
(* Python values are represented as follows.  A list is a sequence, a dict *)
(* is a function whose DOMAIN is its set of keys, a string that the code   *)
(* slices or tests (ids, MAC addresses) is a sequence of characters, a     *)
(* dict that may be None is a sequence of length 0 (None) or 1, and a      *)
(* string that may be None is a sequence of characters or None below.      *)
(***************************************************************************)
EXTENDS Integers, Sequences, FiniteSets, TLC

VARIABLES
    options,        \* entry.options, the override layer
    data,           \* entry.data, the base layer
    pc,             \* the await at which async_update_data is suspended
    last_data,      \* async_update_data.last_data
    devices,        \* local of async_update_data
    boxes,          \* local of async_update_data
    results,        \* local of async_update_data
    enabled,        \* the enabled column of the local list calls
    ret,            \* how the latest refresh ended and what it returned
    api_boxes,      \* the answer of client.get_boxes() during the tick, or
                    \* the one it had ready when the tick ended without it
    replaced_all,   \* the latest refresh found a cache with no collection
                    \* empty and stored a different list for each
    invoked,        \* fetch operations invoked during the current tick
    raised,         \* fetch operations that raised during the current tick
    stored,         \* some tick of this poller has assigned last_data
    ever_fetched,   \* collections some fetch of this poller returned non-empty
    sensor_flags    \* enable_flows, enable_alarms of sensor.async_setup_entry

vars == <<options, data, pc, last_data, devices, boxes,
          results, enabled, ret, api_boxes, replaced_all, invoked, raised,
          stored, ever_fetched, sensor_flags>>

(***************************************************************************)
(* Bounds.                                                                 *)
(***************************************************************************)
\* The longest list of devices or of flows the API answers with.
MaxRecords == 2

(***************************************************************************)
(* Names.                                                                  *)
(***************************************************************************)
CONF_ENABLE_RULES == "enable_rules"
CONF_ENABLE_ALARMS == "enable_alarms"
CONF_ENABLE_FLOWS == "enable_flows"

FlagKeys == {CONF_ENABLE_RULES, CONF_ENABLE_ALARMS, CONF_ENABLE_FLOWS}

\* The keys of the dict literal data, in the order it lists them.
SnapshotKeys == {"boxes", "devices", "rules", "alarms", "flows"}

\* get_boxes awaited before get_devices.
CoreOrderBoxesFirst == <<"boxes", "devices">>

\* The core fetches in the order the try block awaits them.
CoreOrder == <<"devices", "boxes">>

\* The first column of the list calls.
CallKeys == <<"rules", "alarms", "flows">>

\* The key-to-flag pairing of the list calls.
CallFlag(key) ==
    CASE key = "rules" -> CONF_ENABLE_RULES
      [] key = "alarms" -> CONF_ENABLE_ALARMS
      [] key = "flows" -> CONF_ENABLE_FLOWS

(***************************************************************************)
(* Python primitives.                                                      *)
(***************************************************************************)
None == <<"None">>

EmptyDict == [k \in {} |-> k]

\* d.get(key, default)
DictGet(d, key, default) == IF key \in DOMAIN d THEN d[key] ELSE default

\* y or x
OrCachedFirst(x, y) == IF Len(y) > 0 THEN y ELSE x

\* x, whatever it is
OrFreshAlways(x, y) == x

\* x or y, for lists
Or(x, y) == IF Len(x) > 0 THEN x ELSE y

\* bool(x) for x that is None or a dict
Truthy(x) == Len(x) > 0 /\ DOMAIN x[1] # {}

(***************************************************************************)
(* What the remote API can answer.  Every record of devices and flows      *)
(* carries an id except one device record, which the platforms' setup code *)
(* filters out explicitly.                                                 *)
(***************************************************************************)
Hex == <<"A", "B", "C", "D">>

DeviceId(i) == <<"m", "a", "c", ":", Hex[i]>>

FlowId(i) == <<"f", Hex[i]>>

Device(i) ==
    IF i % 2 = 1
    THEN [id |-> DeviceId(i), mac |-> <<Hex[i], Hex[i]>>, online |-> TRUE]
    ELSE [id |-> DeviceId(i), online |-> FALSE]

AnonDevice == [name |-> <<"x">>]

Flow(i) ==
    IF i % 2 = 1
    THEN [id |-> FlowId(i), download |-> 1024 * i + 5, upload |-> 512]
    ELSE [id |-> FlowId(i), download |-> 5 * 1024 + 128 * i]

\* The non-empty answers of a fetch: the list of the first v devices or
\* flows for each length v, and an old and a new list for the others.
Versions(key) ==
    IF key \in {"devices", "flows"} THEN 1..MaxRecords ELSE {1, 2}

Payload(key, v) ==
    CASE key = "boxes" -> <<[id |-> <<"b", Hex[v]>>]>>
      [] key = "devices" ->
            (IF v % 2 = 1 THEN <<AnonDevice>> ELSE <<>>)
                \o [i \in 1..v |-> Device(i)]
      [] key = "rules" -> <<[id |-> <<"r", Hex[v]>>]>>
      [] key = "alarms" -> <<[id |-> <<"a", Hex[v]>>, message |-> <<Hex[v]>>]>>
      [] key = "flows" -> [i \in 1..v |-> Flow(i)]

\* The lists a fetch of key can return: empty, or one of the versions.
Answers(key) == {<<>>} \cup {Payload(key, v) : v \in Versions(key)}

\* What a fetch can do: raise, or return one of its answers.
Responses(key) ==
    {[raises |-> TRUE, value |-> <<>>]}
        \cup {[raises |-> FALSE, value |-> a] : a \in Answers(key)}

(***************************************************************************)
(* The config entry.                                                       *)
(***************************************************************************)
\* Every mapping from some of the flag keys to booleans.
Layers == UNION {[S -> BOOLEAN] : S \in SUBSET FlagKeys}

AllTrue == [k \in FlagKeys |-> TRUE]

\* The (options, data) pairs the poller is run under.
EntryConfigs ==
    { <<EmptyDict, EmptyDict>>,
      <<EmptyDict, AllTrue>>,
      <<[k \in {CONF_ENABLE_FLOWS} |-> FALSE], AllTrue>> }

\* opts.get(key) or entry.data.get(key, False)
is_enabled_or(opts, entry_data, key) ==
    DictGet(opts, key, FALSE) \/ DictGet(entry_data, key, FALSE)

\* is_enabled, with entry passed explicitly
is_enabled(opts, entry_data, key) ==
    DictGet(opts, key, DictGet(entry_data, key, FALSE))

\* The flag expressions of sensor.async_setup_entry.
sensor_enable(opts, data_src, key) ==
    DictGet(opts, key, DictGet(data_src, key, FALSE))

(***************************************************************************)
(* async_update_data.                                                      *)
(***************************************************************************)
\* last = {}: the merge never looks at last_data.
LastDiscarded(ld) == EmptyDict

\* last = getattr(async_update_data, "last_data", {}) or {}
LastOrEmpty(ld) == IF Truthy(ld) THEN ld[1] ELSE EmptyDict

\* The dict literal with the keys of empty collections left out.
MergeNonEmpty(bxs, dvs, res, last) ==
    LET full == [boxes |-> Or(bxs, DictGet(last, "boxes", <<>>)),
                 devices |-> Or(dvs, DictGet(last, "devices", <<>>)),
                 rules |-> Or(res["rules"], DictGet(last, "rules", <<>>)),
                 alarms |-> Or(res["alarms"], DictGet(last, "alarms", <<>>)),
                 flows |-> Or(res["flows"], DictGet(last, "flows", <<>>))]
    IN [k \in {c \in SnapshotKeys : Len(full[c]) > 0} |-> full[k]]

\* The dict literal data.
Merge(bxs, dvs, res, last) ==
    [boxes |-> Or(bxs, DictGet(last, "boxes", <<>>)),
     devices |-> Or(dvs, DictGet(last, "devices", <<>>)),
     rules |-> Or(res["rules"], DictGet(last, "rules", <<>>)),
     alarms |-> Or(res["alarms"], DictGet(last, "alarms", <<>>)),
     flows |-> Or(res["flows"], DictGet(last, "flows", <<>>))]

\* A handler that raises without looking at last_data.
ExceptBranchAlwaysRaise(ld) == [status |-> "UpdateFailed", data |-> <<>>]

\* A handler that returns an empty snapshot in place of last_data.
ExceptBranchEmpty(ld) ==
    IF Truthy(ld)
    THEN [status |-> "returned", data |-> <<[k \in SnapshotKeys |-> <<>>]>>]
    ELSE [status |-> "UpdateFailed", data |-> <<>>]

\* The handler of the outer try.
ExceptBranch(ld) ==
    IF Truthy(ld)
    THEN [status |-> "returned", data |-> ld]
    ELSE [status |-> "UpdateFailed", data |-> <<>>]

\* One try around the whole loop: the handler is left past the last call.
LoopAbandon(i) == Len(CallKeys) + 1

\* Where the loop over calls goes on after the handler of the inner try.
LoopResume(i) == i + 1

\* The next entry of calls, enabled or not.
NextUnconditional(i, en) == IF i <= Len(CallKeys) THEN i ELSE 0

\* The first entry of calls at or after position i that is enabled, 0 if none.
NextEnabled(i, en) ==
    LET S == {j \in i..Len(CallKeys) : en[CallKeys[j]]}
    IN IF S = {} THEN 0 ELSE CHOOSE j \in S : \A k \in S : j <= k

NoResults == [k \in {"rules", "alarms", "flows"} |-> <<>>]

\* api_boxes while no tick has asked for or missed an answer.
NoResponse == [raises |-> TRUE, value |-> <<>>]

NoRet == [status |-> "none", data |-> <<>>]

Running == [status |-> "running", data |-> <<>>]

NonEmptyKeys(key, value) == IF Len(value) > 0 THEN {key} ELSE {}

Init ==
    /\ \E cfg \in EntryConfigs : options = cfg[1] /\ data = cfg[2]
    /\ pc = "idle"
    /\ last_data = <<>>
    /\ devices = <<>>
    /\ boxes = <<>>
    /\ results = NoResults
    /\ enabled = [k \in {"rules", "alarms", "flows"} |-> FALSE]
    /\ ret = NoRet
    /\ api_boxes = NoResponse
    /\ replaced_all = FALSE
    /\ invoked = {}
    /\ raised = {}
    /\ stored = FALSE
    /\ ever_fetched = {}
    /\ sensor_flags = EmptyDict

\* The coordinator calls the update method, which runs to its first await.
StartRefresh ==
    /\ pc = "idle"
    /\ pc' = CoreOrder[1]
    /\ devices' = <<>>
    /\ boxes' = <<>>
    /\ results' = NoResults
    /\ enabled' = [k \in {"rules", "alarms", "flows"} |-> FALSE]
    /\ ret' = Running
    /\ replaced_all' = FALSE
    /\ invoked' = {CoreOrder[1]}
    /\ raised' = {}
    /\ api_boxes' = NoResponse
    /\ UNCHANGED <<options, data, last_data, stored, ever_fetched,
                   sensor_flags>>

\* Control reaches the outer except clause.
Fail ==
    /\ ret' = ExceptBranch(last_data)
    /\ pc' = "idle"
    /\ UNCHANGED <<last_data, stored, replaced_all>>

\* The loop over calls runs from position i with locals dvs, bxs, res and
\* flags en, up to the next await or through the merge and the return.
Proceed(i, dvs, bxs, res, en) ==
    LET j == NextEnabled(i, en)
    IN IF j # 0
       THEN /\ pc' = CallKeys[j]
            /\ invoked' = invoked \cup {CallKeys[j]}
            /\ UNCHANGED <<last_data, ret, stored, replaced_all>>
       ELSE LET last == LastOrEmpty(last_data)
                merged == Merge(bxs, dvs, res, last)
            IN /\ last_data' = <<merged>>
               /\ replaced_all' =
                     \A c \in SnapshotKeys :
                         /\ Len(DictGet(last, c, <<>>)) > 0
                         /\ DictGet(merged, c, <<>>) # DictGet(last, c, <<>>)
               /\ ret' = [status |-> "returned", data |-> <<merged>>]
               /\ stored' = TRUE
               /\ pc' = "idle"
               /\ UNCHANGED invoked

\* A core fetch returns.
CoreReturns ==
    /\ pc \in {"devices", "boxes"}
    /\ \E r \in Responses(pc) :
        /\ ~r.raises
        /\ devices' = IF pc = "devices" THEN r.value ELSE devices
        /\ boxes' = IF pc = "boxes" THEN r.value ELSE boxes
        /\ ever_fetched' = ever_fetched \cup NonEmptyKeys(pc, r.value)
        /\ IF pc = CoreOrder[1]
           THEN /\ pc' = CoreOrder[2]
                /\ invoked' = invoked \cup {CoreOrder[2]}
                /\ UNCHANGED <<enabled, last_data, ret, stored,
                               replaced_all>>
           ELSE /\ enabled' = [k \in {"rules", "alarms", "flows"} |->
                                 is_enabled(options, data, CallFlag(k))]
                /\ Proceed(1, devices', boxes', results, enabled')
        /\ api_boxes' = IF pc = "boxes" THEN r ELSE api_boxes
        /\ UNCHANGED <<options, data, results, raised, sensor_flags>>

\* A core fetch raises.
CoreRaises ==
    /\ pc \in {"devices", "boxes"}
    /\ \E r \in Responses(pc) :
        /\ r.raises
        /\ raised' = raised \cup {pc}
        /\ Fail
        /\ IF pc = "boxes"
           THEN api_boxes' = r
           ELSE IF "boxes" \in invoked
           THEN api_boxes' = api_boxes
           ELSE api_boxes' \in Responses("boxes")
        /\ UNCHANGED <<options, data, devices, boxes, results, enabled,
                       invoked, ever_fetched, sensor_flags>>

Position(key) == CHOOSE i \in 1..Len(CallKeys) : CallKeys[i] = key

\* The fetch of an enabled optional collection returns.
OptionalReturns ==
    /\ pc \in {"rules", "alarms", "flows"}
    /\ \E a \in Answers(pc) :
        /\ results' = [results EXCEPT ![pc] = a]
        /\ ever_fetched' = ever_fetched \cup NonEmptyKeys(pc, a)
        /\ Proceed(Position(pc) + 1, devices, boxes, results', enabled)
        /\ UNCHANGED <<options, data, devices, boxes, enabled, api_boxes,
                       raised, sensor_flags>>

\* The fetch of an enabled optional collection raises.
OptionalRaises ==
    /\ pc \in {"rules", "alarms", "flows"}
    /\ raised' = raised \cup {pc}
    /\ Proceed(LoopResume(Position(pc)), devices, boxes, results, enabled)
    /\ UNCHANGED <<options, data, devices, boxes, results, enabled,
                   api_boxes, ever_fetched, sensor_flags>>

\* The host rewrites the entry between two ticks, which schedules the update
\* listener; refreshes can run before the listener does.  The locals of the
\* refresh that has returned are gone, and no refresh has run under the new
\* entry yet.
UpdateEntry ==
    \E cfg \in EntryConfigs :
        /\ pc = "idle"
        /\ <<options, data>> # cfg
        /\ options' = cfg[1]
        /\ data' = cfg[2]
        /\ devices' = <<>>
        /\ boxes' = <<>>
        /\ results' = NoResults
        /\ enabled' = [k \in {"rules", "alarms", "flows"} |-> FALSE]
        /\ ret' = NoRet
        /\ replaced_all' = FALSE
        /\ invoked' = {}
        /\ raised' = {}
        /\ api_boxes' = NoResponse
        /\ UNCHANGED <<pc, last_data, stored, ever_fetched, sensor_flags>>

\* The host sets the entry up again, as async_update_options asks it to:
\* async_setup_entry builds a new async_update_data and sets its last_data
\* to None.
Reload ==
    /\ pc = "idle"
    /\ last_data' = <<>>
    /\ devices' = <<>>
    /\ boxes' = <<>>
    /\ results' = NoResults
    /\ enabled' = [k \in {"rules", "alarms", "flows"} |-> FALSE]
    /\ ret' = NoRet
    /\ replaced_all' = FALSE
    /\ invoked' = {}
    /\ raised' = {}
    /\ stored' = FALSE
    /\ ever_fetched' = {}
    /\ api_boxes' = NoResponse
    /\ UNCHANGED <<options, data, pc, sensor_flags>>

Next ==
    \/ StartRefresh
    \/ CoreReturns
    \/ CoreRaises
    \/ OptionalReturns
    \/ OptionalRaises
    \/ UpdateEntry
    \/ Reload

Spec == Init /\ [][Next]_vars

(***************************************************************************)
(* The feature flags on their own: every pair of layers, resolved by the   *)
(* poller (is_enabled) and by the sensor platform's setup.                 *)
(***************************************************************************)
InitFlags ==
    /\ options \in Layers
    /\ data \in Layers
    /\ pc = "idle"
    /\ last_data = <<>>
    /\ devices = <<>>
    /\ boxes = <<>>
    /\ results = NoResults
    /\ enabled = [k \in {"rules", "alarms", "flows"} |-> FALSE]
    /\ ret = NoRet
    /\ api_boxes = NoResponse
    /\ replaced_all = FALSE
    /\ invoked = {}
    /\ raised = {}
    /\ stored = FALSE
    /\ ever_fetched = {}
    /\ sensor_flags = EmptyDict

\* The enabled column of calls is computed.
PollerFlags ==
    /\ pc = "idle"
    /\ pc' = "flags"
    /\ enabled' = [k \in {"rules", "alarms", "flows"} |->
                     is_enabled(options, data, CallFlag(k))]
    /\ UNCHANGED <<options, data, last_data, devices, boxes, results, ret,
                   api_boxes, replaced_all, invoked, raised, stored,
                   ever_fetched, sensor_flags>>

\* sensor.async_setup_entry retrieves its flags.
SensorFlags ==
    /\ sensor_flags = EmptyDict
    /\ sensor_flags' =
          [k \in {CONF_ENABLE_FLOWS, CONF_ENABLE_ALARMS} |->
              sensor_enable(options, data, k)]
    /\ UNCHANGED <<options, data, pc, last_data, devices, boxes, results,
                   enabled, ret, api_boxes, replaced_all, invoked, raised,
                   stored, ever_fetched>>

NextFlags == PollerFlags \/ SensorFlags

SpecFlags == InitFlags /\ [][NextFlags]_vars

(***************************************************************************)
(* The entities' lookups in coordinator.data.  Each yields whether it      *)
(* raises and, if not, its value.                                          *)
(***************************************************************************)
\* next(iterator) with no default: StopIteration when nothing matches.
PyNextNoDefault(matches, default) ==
    IF Len(matches) > 0
    THEN [raises |-> FALSE, value |-> matches[1]]
    ELSE [raises |-> TRUE, value |-> default]

\* next(iterator, default) over the matching elements.
PyNext(matches, default) ==
    [raises |-> FALSE,
     value |-> IF Len(matches) > 0 THEN matches[1] ELSE default]

\* The generator (d for d in devices if d.get("id") == device_id).
DeviceMatches(coordinator_data, device_id) ==
    SelectSeq(DictGet(coordinator_data, "devices", <<>>),
              LAMBDA d : DictGet(d, "id", None) = device_id)

\* FirewallaDeviceTracker._get_device_data
get_device_data(coordinator_data, device_id) ==
    PyNext(DeviceMatches(coordinator_data, device_id), EmptyDict)

\* FirewallaDeviceTracker.is_connected
is_connected(coordinator_data, device_id) ==
    LET device == get_device_data(coordinator_data, device_id)
    IN IF device.raises
       THEN [raises |-> TRUE, value |-> FALSE]
       ELSE [raises |-> FALSE, value |-> DictGet(device.value, "online", FALSE)]

\* mac.startswith("mac:")
StartsWithMac(mac) ==
    Len(mac) >= 4 /\ SubSeq(mac, 1, 4) = <<"m", "a", "c", ":">>

\* Each element of a list as a value that may be None.
Boxed(seq) == [i \in 1..Len(seq) |-> <<seq[i]>>]

\* FirewallaMacAddressSensor.native_value
mac_native_value(coordinator_data, device_id) ==
    LET device == PyNext(Boxed(DeviceMatches(coordinator_data, device_id)),
                         <<>>)
    IN IF device.raises
       THEN [raises |-> TRUE, value |-> None]
       ELSE IF ~Truthy(device.value)
       THEN [raises |-> FALSE, value |-> None]
       ELSE LET mac == DictGet(device.value[1], "mac", device_id)
            IN [raises |-> FALSE,
                value |-> IF StartsWithMac(mac)
                          THEN SubSeq(mac, 5, Len(mac))
                          ELSE mac]

\* round(n / 1024, 2), in hundredths; ties go to the even hundredth.
RoundKB(n) ==
    LET q == (100 * n) \div 1024
        r == (100 * n) % 1024
    IN IF r > 512 \/ (r = 512 /\ q % 2 = 1) THEN q + 1 ELSE q

\* The generator (f for f in flows if f["id"] == flow_id), run from element
\* i up to its first match: the index of the match, 0 if there is none, or
\* the KeyError of f["id"].
RECURSIVE FlowScan(_, _, _)
FlowScan(flows, i, flow_id) ==
    IF i > Len(flows)
    THEN [raises |-> FALSE, index |-> 0]
    ELSE IF "id" \notin DOMAIN flows[i]
    THEN [raises |-> TRUE, index |-> 0]
    ELSE IF flows[i]["id"] = flow_id
    THEN [raises |-> FALSE, index |-> i]
    ELSE FlowScan(flows, i + 1, flow_id)

\* FirewallaFlowSensor.native_value
flow_native_value(coordinator_data, flow_id) ==
    LET flows == DictGet(coordinator_data, "flows", <<>>)
        scan == FlowScan(flows, 1, flow_id)
        found == IF scan.index = 0 THEN <<>> ELSE <<flows[scan.index]>>
        flow == PyNext(found, EmptyDict)
    IN IF scan.raises \/ flow.raises
       THEN [raises |-> TRUE, value |-> 0]
       ELSE [raises |-> FALSE,
             value |-> RoundKB(DictGet(flow.value, "download", 0)
                               + DictGet(flow.value, "upload", 0))]

(***************************************************************************)
(* Properties.  A state property speaks of the refresh that has just      *)
(* ended; a step property speaks of the step in which a refresh ends,      *)
(* where last_data is the retained cache the refresh started with.         *)
(***************************************************************************)
\* A refresh has ended and nothing has happened since.
Done == pc = "idle" /\ ret.status \in {"returned", "UpdateFailed"}

\* The step in which a refresh ends.
Returning == pc # "idle" /\ pc' = "idle"

CoreRaised == raised \cap {"devices", "boxes"} # {}

\* The value the fetch of collection c returned during the tick.
FreshValue(c) ==
    CASE c = "devices" -> devices
      [] c = "boxes" -> boxes
      [] OTHER -> results[c]

\* The retained cache's value for c, empty if there is no cache.
CachedValue(c) == IF last_data = <<>> THEN <<>> ELSE last_data[1][c]

\* The flag of optional collection c as the entry's two layers state it.
FlagOn(c) ==
    \/ CallFlag(c) \in DOMAIN options /\ options[CallFlag(c)]
    \/ /\ CallFlag(c) \notin DOMAIN options
       /\ CallFlag(c) \in DOMAIN data
       /\ data[CallFlag(c)]

\* C1: a refresh raises UpdateFailed exactly when a core fetch raised during
\* it and no earlier tick of the poller had stored a snapshot; once a
\* snapshot has been stored no refresh ends in UpdateFailed.
C1_UpdateFailedIff ==
    [][/\ Returning =>
              ((ret'.status = "UpdateFailed") <=> (CoreRaised' /\ ~stored))
       /\ stored => ret'.status # "UpdateFailed"]_vars

C1_Witness ==
    /\ Done
    /\ ret.status = "UpdateFailed"
    /\ "boxes" \in raised
    /\ Len(devices) > 0

\* C2: when a core fetch raises and a retained snapshot exists, the refresh
\* returns that snapshot, all five collections as they were, and the
\* retained cache is unchanged.
C2_StaleReturn ==
    [][(Returning /\ CoreRaised' /\ last_data # <<>>) =>
          /\ ret' = [status |-> "returned", data |-> last_data]
          /\ last_data' = last_data]_vars

\* get_boxes raised after get_devices had returned a list other than the
\* cached one, and the refresh returned the cache, non-empty throughout.
C2_Witness ==
    /\ Done
    /\ "boxes" \in raised
    /\ ret.status = "returned"
    /\ \A c \in SnapshotKeys : Len(ret.data[1][c]) > 0
    /\ Len(devices) > 0
    /\ devices # ret.data[1]["devices"]

\* The step of C3: a refresh ends in which get_devices raised, a snapshot
\* was retained, and get_boxes answers a non-empty list that differs from
\* the retained one.
C3_Step ==
    /\ Returning
    /\ "devices" \in raised'
    /\ last_data # <<>>
    /\ ~api_boxes'.raises
    /\ Len(api_boxes'.value) > 0
    /\ api_boxes'.value # last_data[1]["boxes"]

\* C3 as stated: on such a tick the snapshot has the cached devices and the
\* freshly fetched boxes.
C3_Original ==
    [][C3_Step =>
          /\ ret'.status = "returned"
          /\ ret'.data[1]["devices"] = last_data[1]["devices"]
          /\ ret'.data[1]["boxes"] = api_boxes'.value]_vars

\* C3 amended: on such a tick get_boxes is not invoked, and the snapshot
\* has the cached devices and the cached boxes.
C3_Amended ==
    [][C3_Step =>
          /\ "boxes" \notin invoked'
          /\ ret'.status = "returned"
          /\ ret'.data[1]["devices"] = last_data[1]["devices"]
          /\ ret'.data[1]["boxes"] = last_data[1]["boxes"]]_vars

C3_Witness ==
    /\ Done
    /\ "devices" \in raised
    /\ ret.status = "returned"
    /\ ~api_boxes.raises
    /\ Len(api_boxes.value) > 0
    /\ Len(ret.data[1]["boxes"]) > 0
    /\ api_boxes.value # ret.data[1]["boxes"]
    /\ Len(ret.data[1]["devices"]) > 0

\* All five fetches were invoked during the tick and returned non-empty.
C4_Case ==
    /\ invoked = SnapshotKeys
    /\ raised = {}
    /\ \A c \in SnapshotKeys : Len(FreshValue(c)) > 0

\* C4: when all five fetches return non-empty data the snapshot returned
\* and the retained cache are exactly the fetched data, whatever the cache
\* was.
C4_FreshOnSuccess ==
    [][(Returning /\ C4_Case') =>
          /\ ret'.status = "returned"
          /\ ret'.data = <<[c \in SnapshotKeys |-> FreshValue(c)']>>
          /\ last_data' = ret'.data]_vars

\* Every collection of the cache was non-empty and was replaced by a
\* different list.
C4_Witness ==
    /\ Done
    /\ C4_Case
    /\ replaced_all

\* C5: when an optional fetch raises and the core fetches do not, the
\* refresh returns; every enabled optional fetch was invoked; a collection
\* fetched non-empty is delivered as fetched; a collection whose fetch
\* raised or returned empty has the cached value, empty if there is none.
C5_OptionalFailure ==
    [][(Returning /\ ~CoreRaised' /\ raised' # {}) =>
          /\ ret'.status = "returned"
          /\ \A c \in {"rules", "alarms", "flows"} :
                FlagOn(c) => c \in invoked'
          /\ \A c \in invoked' \ raised' :
                Len(FreshValue(c)') > 0 => ret'.data[1][c] = FreshValue(c)'
          /\ \A c \in invoked' :
                (c \in raised' \/ Len(FreshValue(c)') = 0)
                    => ret'.data[1][c] = CachedValue(c)]_vars

\* get_rules raised, the cached rules were delivered, and the flows fetched
\* afterwards were delivered.
C5_Witness ==
    /\ Done
    /\ ~CoreRaised
    /\ "rules" \in raised
    /\ Len(ret.data[1]["rules"]) > 0
    /\ "flows" \in invoked \ raised
    /\ Len(results["flows"]) > 0
    /\ ret.data[1]["flows"] = results["flows"]

\* C6: a fetch that returns the empty list while the cache holds a
\* non-empty value for the collection leaves the cached value in the
\* snapshot and in the cache.
C6_EmptyKeepsCache ==
    [][\A c \in SnapshotKeys :
          (/\ Returning
           /\ c \in invoked' \ raised'
           /\ Len(FreshValue(c)') = 0
           /\ Len(CachedValue(c)) > 0) =>
              /\ ret'.status = "returned"
              /\ ret'.data[1][c] = last_data[1][c]
              /\ last_data'[1][c] = last_data[1][c]]_vars

\* get_devices and get_alarms returned empty lists and the snapshot has
\* devices and alarms.
C6_Witness ==
    /\ Done
    /\ ~CoreRaised
    /\ {"devices", "alarms"} \subseteq invoked \ raised
    /\ Len(devices) = 0
    /\ Len(results["alarms"]) = 0
    /\ Len(ret.data[1]["devices"]) > 0
    /\ Len(ret.data[1]["alarms"]) > 0

\* C7: when the flag of an optional collection is disabled, its fetch is
\* not invoked during the tick, and its entry in the snapshot is the
\* cached value, empty if there is no cache.
C7_FlagGating ==
    [][\A c \in {"rules", "alarms", "flows"} :
          (Returning /\ ~FlagOn(c)) =>
              /\ c \notin invoked'
              /\ ret'.status = "returned" =>
                    ret'.data[1][c] = CachedValue(c)]_vars

\* flows is switched off by the override layer over a base layer that
\* switches it on, rules was fetched, and the snapshot has cached flows.
C7_Witness ==
    /\ Done
    /\ ret.status = "returned"
    /\ CONF_ENABLE_FLOWS \in DOMAIN options
    /\ ~options[CONF_ENABLE_FLOWS]
    /\ data[CONF_ENABLE_FLOWS]
    /\ "rules" \in invoked
    /\ "flows" \notin invoked
    /\ Len(ret.data[1]["flows"]) > 0

\* The flags have been resolved by the poller and by the sensor platform.
FlagsResolved == pc = "flags" /\ sensor_flags # EmptyDict

\* The resolution C8 states for flag key.
Layered(key) ==
    IF key \in DOMAIN options
    THEN options[key]
    ELSE IF key \in DOMAIN data THEN data[key] ELSE FALSE

\* C8: a flag resolves to the override layer's value if the key is present
\* there, else to the base layer's value if present there, else to
\* disabled.
C8_FlagPrecedence ==
    FlagsResolved =>
        /\ \A c \in {"rules", "alarms", "flows"} :
              enabled[c] = Layered(CallFlag(c))
        /\ \A k \in DOMAIN sensor_flags : sensor_flags[k] = Layered(k)

C8_Witness ==
    /\ FlagsResolved
    /\ CONF_ENABLE_RULES \in DOMAIN options
    /\ ~options[CONF_ENABLE_RULES]
    /\ CONF_ENABLE_RULES \in DOMAIN data
    /\ data[CONF_ENABLE_RULES]
    /\ ~enabled["rules"]
    /\ CONF_ENABLE_ALARMS \notin DOMAIN options
    /\ enabled["alarms"]
    /\ CONF_ENABLE_FLOWS \notin DOMAIN options \cup DOMAIN data

\* snapshot has the five keys, and a collection never fetched non-empty is
\* empty in it.
WellFormed(snapshot) ==
    /\ DOMAIN snapshot = SnapshotKeys
    /\ \A c \in SnapshotKeys \ ever_fetched : snapshot[c] = <<>>

\* C9: every snapshot a refresh returns and every retained cache has all
\* five keys, a collection never fetched non-empty being empty.
C9_FiveKeys ==
    /\ last_data # <<>> => WellFormed(last_data[1])
    /\ ret.status = "returned" => WellFormed(ret.data[1])

C9_Witness ==
    /\ Done
    /\ ret.status = "returned"
    /\ last_data = ret.data
    /\ ever_fetched = {"devices"}
    /\ Len(ret.data[1]["devices"]) > 0

\* The ids of the entities the platforms can have set up.
DeviceIds == {DeviceId(i) : i \in 1..MaxRecords}

FlowIds == {FlowId(i) : i \in 1..MaxRecords}

\* No record of collection c of the snapshot has this id.
Missing(snapshot, c, id) ==
    \A i \in 1..Len(snapshot[c]) :
        "id" \in DOMAIN snapshot[c][i] => snapshot[c][i]["id"] # id

\* C10: on every snapshot a refresh returns, an entity's lookup of its own
\* id among the devices or the flows does not raise, and when no record has
\* that id it yields the empty record, None, False or zero.
C10_LookupTolerant ==
    ret.status = "returned" =>
        /\ \A id \in DeviceIds :
              /\ ~get_device_data(ret.data[1], id).raises
              /\ ~is_connected(ret.data[1], id).raises
              /\ ~mac_native_value(ret.data[1], id).raises
              /\ Missing(ret.data[1], "devices", id) =>
                    /\ get_device_data(ret.data[1], id).value = EmptyDict
                    /\ ~is_connected(ret.data[1], id).value
                    /\ mac_native_value(ret.data[1], id).value = None
        /\ \A id \in FlowIds :
              /\ ~flow_native_value(ret.data[1], id).raises
              /\ Missing(ret.data[1], "flows", id) =>
                    flow_native_value(ret.data[1], id).value = 0

\* The snapshot has devices and flows, and the id of a device entity and
\* the id of a flow entity are not among them.
C10_Witness ==
    /\ Done
    /\ ret.status = "returned"
    /\ Len(ret.data[1]["devices"]) > 0
    /\ Len(ret.data[1]["flows"]) > 0
    /\ \E id \in DeviceIds : Missing(ret.data[1], "devices", id)
    /\ \E id \in FlowIds : Missing(ret.data[1], "flows", id)

\* C11: between two set-ups of the poller, a collection that is non-empty
\* in the retained cache stays non-empty in the cache after every step,
\* and a refresh that ends then returns a snapshot (it does not raise) in
\* which that collection is non-empty, whatever the fetches answered and
\* whatever the entry's flags have become.
C11_NonEmptyMonotone ==
    [][\/ Reload
       \/ \A c \in SnapshotKeys :
              Len(CachedValue(c)) > 0 =>
                  /\ Len(CachedValue(c)') > 0
                  /\ Returning =>
                        /\ ret'.status = "returned"
                        /\ Len(ret'.data[1][c]) > 0]_vars

\* A refresh has ended under an entry that switches flows off, in which
\* get_rules raised and get_alarms returned an empty list, and the
\* snapshot still has the rules, alarms and flows of earlier ticks.
C11_Witness ==
    /\ Done
    /\ ret.status = "returned"
    /\ ~FlagOn("flows")
    /\ "flows" \notin invoked
    /\ "rules" \in raised
    /\ "alarms" \in invoked \ raised
    /\ Len(results["alarms"]) = 0
    /\ \A c \in SnapshotKeys : Len(ret.data[1][c]) > 0
    /\ last_data = ret.data
====
